---- MODULE Spec2Model ----
(***************************************************************************)
(* Model of pharma-ui/app/page.tsx (component Home): the drug tag          *)
(* selection with autocomplete, the two asynchronous submission handlers   *)
(* (handleAnalyze, loadDemoPatient) and the result panel's state           *)
(* selection.                                                              *)
(*                                                                         *)
(* Strings the code computes on (drug codes, the free-text input, the      *)
(* `drugs` form field) are sequences of one-character strings, so that     *)
(* toLowerCase, includes, split, trim and join are computed character by   *)
(* character.  Opaque names (file names, demo types, alert texts) are      *)
(* TLA+ strings.                                                           *)
(***************************************************************************)
EXTENDS Integers, Sequences, FiniteSets, TLC

VARIABLES file, selectedDrugs, drugInput, result, loading, activeDemo,
          alertMsg, inflight, issued, edits, gauge, spectrum

vars == <<file, selectedDrugs, drugInput, result, loading, activeDemo,
          alertMsg, inflight, issued, edits, gauge, spectrum>>

-----------------------------------------------------------------------------
(* Bounds of the model *)

\* submissions (handleAnalyze / loadDemoPatient calls that start work) per run
MaxSubmissions == 2
\* input events (Enter in the tag input, tag removal, file choice) per run of
\* the orchestrator's specification
MaxEdits == 1
\* length of the free text typed into the tag input
MaxInputLen == 2

-----------------------------------------------------------------------------
(* Strings *)

CLOPIDOGREL == <<"C","L","O","P","I","D","O","G","R","E","L">>
SIMVASTATIN == <<"S","I","M","V","A","S","T","A","T","I","N">>
CODEINE == <<"C","O","D","E","I","N","E">>
WARFARIN == <<"W","A","R","F","A","R","I","N">>
AZATHIOPRINE == <<"A","Z","A","T","H","I","O","P","R","I","N","E">>
FLUOROURACIL == <<"F","L","U","O","R","O","U","R","A","C","I","L">>

AVAILABLE_DRUGS ==
  <<CLOPIDOGREL, SIMVASTATIN, CODEINE, WARFARIN, AZATHIOPRINE, FLUOROURACIL>>

Range(s) == {s[i] : i \in 1..Len(s)}

LowerOf ==
  [A |-> "a", B |-> "b", C |-> "c", D |-> "d", E |-> "e", F |-> "f",
   G |-> "g", H |-> "h", I |-> "i", J |-> "j", K |-> "k", L |-> "l",
   M |-> "m", N |-> "n", O |-> "o", P |-> "p", Q |-> "q", R |-> "r",
   S |-> "s", T |-> "t", U |-> "u", V |-> "v", W |-> "w", X |-> "x",
   Y |-> "y", Z |-> "z"]

\* String.prototype.toLowerCase
toLowerCase(s) ==
  [i \in 1..Len(s) |-> IF s[i] \in DOMAIN LowerOf THEN LowerOf[s[i]] ELSE s[i]]

\* String.prototype.includes: the empty needle is included in every string
includes(hay, needle) ==
  \E i \in 0..(Len(hay) - Len(needle)) :
     SubSeq(hay, i + 1, i + Len(needle)) = needle

\* Array.prototype.includes
arrayIncludes(arr, x) == \E i \in 1..Len(arr) : arr[i] = x

\* Array.prototype.filter with the predicate given as the set it accepts
RECURSIVE filterIn(_, _)
filterIn(arr, keep) ==
  IF arr = <<>> THEN <<>>
  ELSE IF Head(arr) \in keep
       THEN <<Head(arr)>> \o filterIn(Tail(arr), keep)
       ELSE filterIn(Tail(arr), keep)

\* Array.prototype.join(",")
RECURSIVE join(_)
join(arr) ==
  IF arr = <<>> THEN <<>>
  ELSE IF Len(arr) = 1 THEN arr[1]
  ELSE arr[1] \o <<",">> \o join(Tail(arr))

\* String.prototype.split(","): the pieces between the commas
RECURSIVE splitFrom(_, _)
splitFrom(s, cur) ==
  IF s = <<>> THEN <<cur>>
  ELSE IF Head(s) = "," THEN <<cur>> \o splitFrom(Tail(s), <<>>)
  ELSE splitFrom(Tail(s), Append(cur, Head(s)))

split(s) == splitFrom(s, <<>>)

\* String.prototype.trim: leading and trailing blanks removed
RECURSIVE trimLeft(_)
trimLeft(s) ==
  IF s # <<>> /\ Head(s) = " " THEN trimLeft(Tail(s)) ELSE s

RECURSIVE trimRight(_)
trimRight(s) ==
  IF s # <<>> /\ s[Len(s)] = " " THEN trimRight(SubSeq(s, 1, Len(s) - 1)) ELSE s

trim(s) == trimRight(trimLeft(s))

-----------------------------------------------------------------------------
(* Values *)

NoFile == "<null>"
NoDemo == "<null>"
NoAlert == "<none>"
UploadedFile == "patient.vcf"

AlertMissingFile == "Please upload a VCF file"
AlertNoDrugs == "Please select at least one drug"
AlertBackend == "Failed to connect to backend. Is your FastAPI server running?"
AlertDemo == "Demo patient unavailable. Please ensure files are in public/sample_vcfs/"

\* the characters typed into the tag input
InputAlphabet == {"c", "O"}

RECURSIVE TextsUpTo(_)
TextsUpTo(n) ==
  IF n = 0 THEN {<<>>}
  ELSE LET shorter == TextsUpTo(n - 1)
       IN shorter \cup {Append(t, c) : t \in shorter, c \in InputAlphabet}

InputTexts == TextsUpTo(MaxInputLen)

\* the table `demos` of loadDemoPatient
demos ==
  [normal |-> [drug |-> CLOPIDOGREL, file |-> "normal_metabolizer.vcf"],
   intermediate |-> [drug |-> WARFARIN \o <<",", " ">> \o CODEINE,
                     file |-> "intermediate_metabolizer.vcf"],
   poor |-> [drug |-> CODEINE, file |-> "poor_metabolizer.vcf"],
   rapid |-> [drug |-> CODEINE, file |-> "rapid_metabolizer.vcf"]]

\* the types the four "Quick Load Demos" buttons pass to loadDemoPatient
DemoButtons == {"normal", "intermediate", "poor", "rapid"}

\* what res.json() can yield: a full result, a service error {error: ...},
\* or a JSON document that is neither (no `error`, no `risk_assessment`)
PayloadKinds == {"ok", "error", "malformed"}

Payload(kind, id) ==
  [error |-> kind = "error", wellFormed |-> kind = "ok", req |-> id]

-----------------------------------------------------------------------------
(* Derived values of a render *)

\* the filter comparing the code with the input as typed (no toLowerCase)
suggestedDrugs_CaseSensitive ==
  filterIn(AVAILABLE_DRUGS,
           {d \in Range(AVAILABLE_DRUGS) :
               /\ includes(d, drugInput)
               /\ ~arrayIncludes(selectedDrugs, d)})

suggestedDrugs ==
  filterIn(AVAILABLE_DRUGS,
           {d \in Range(AVAILABLE_DRUGS) :
               /\ includes(toLowerCase(d), toLowerCase(drugInput))
               /\ ~arrayIncludes(selectedDrugs, d)})

\* the branch of the result panel that renders
RenderBranch ==
  IF result = <<>> /\ ~loading THEN "Idle"
  ELSE IF loading THEN "Pending"
  ELSE IF result[1].error THEN "Failure"
  ELSE "Success"

-----------------------------------------------------------------------------
(* Initial state: the useState initial values *)

Init ==
  /\ file = NoFile
  /\ selectedDrugs = <<CLOPIDOGREL, WARFARIN>>
  /\ drugInput = <<>>
  /\ result = <<>>
  /\ loading = FALSE
  /\ activeDemo = NoDemo
  /\ alertMsg = NoAlert
  /\ inflight = {}
  /\ issued = 0
  /\ edits = 0
  /\ gauge = <<>>
  /\ spectrum = <<>>

orchestratorVars == <<file, result, loading, activeDemo, alertMsg, inflight, issued>>

-----------------------------------------------------------------------------
(* Drug Selection Manager *)

\* addDrug without its includes check
addDrugSelection_Unchecked(drugToAdd) == selectedDrugs \o <<drugToAdd>>

\* addDrug's new value of selectedDrugs
addDrugSelection(drugToAdd) ==
  IF ~arrayIncludes(selectedDrugs, drugToAdd)
  THEN selectedDrugs \o <<drugToAdd>>
  ELSE selectedDrugs

addDrug(drugToAdd) ==
  /\ selectedDrugs' = addDrugSelection(drugToAdd)
  /\ drugInput' = <<>>

\* removeDrug's new value of selectedDrugs
removeDrugSelection(drugToRemove) ==
  filterIn(selectedDrugs, Range(selectedDrugs) \ {drugToRemove})

removeDrug(drugToRemove) ==
  /\ selectedDrugs' = removeDrugSelection(drugToRemove)
  /\ UNCHANGED drugInput

\* onChange of the tag input
SetInput(text) ==
  /\ drugInput' = text
  /\ UNCHANGED selectedDrugs

\* Enter taking the last suggestion instead of the first
EnterKey_Last ==
  IF Len(suggestedDrugs) > 0
  THEN addDrug(suggestedDrugs[Len(suggestedDrugs)])
  ELSE UNCHANGED <<selectedDrugs, drugInput>>

\* onKeyDown of the tag input with key Enter
EnterKey ==
  IF Len(suggestedDrugs) > 0
  THEN addDrug(suggestedDrugs[1])
  ELSE UNCHANGED <<selectedDrugs, drugInput>>

\* onClick of an entry of the autocomplete dropdown, which is rendered only
\* while the input is not empty
SuggestionClick(d) ==
  /\ Len(drugInput) > 0
  /\ arrayIncludes(suggestedDrugs, d)
  /\ addDrug(d)

\* onClick of the x of a rendered tag
TagRemoveClick(d) ==
  /\ arrayIncludes(selectedDrugs, d)
  /\ removeDrug(d)

-----------------------------------------------------------------------------
(* Analysis Request Orchestrator and Demo Preset Loader *)

\* an outstanding fetch of the submission `id`: the sample file of a demo
\* (stage "sample") or the POST to /analyze/batch (stage "api") with the form
\* fields it carries.  While the sample of a demo is being fetched,
\* priorResult is the value `result` had when loadDemoPatient was called.
Request(id, origin, stage, type, vcf, drugs, priorResult) ==
  [id |-> id, origin |-> origin, stage |-> stage, type |-> type,
   vcf |-> vcf, drugs |-> drugs, priorResult |-> priorResult]

\* onChange of the file input: the chosen file, or null when none was chosen
ChooseFile(f) ==
  /\ file' = f
  /\ UNCHANGED <<result, loading, activeDemo, alertMsg, inflight, issued>>

\* the file check of handleAnalyze left out
MissingFile_Unchecked == FALSE

\* the two early returns of handleAnalyze
MissingFile == file = NoFile
NoDrugsSelected == selectedDrugs = <<>>

\* setResult(null) moved above the checks of handleAnalyze
earlyReturnResult_Cleared == <<>>

\* what an early return of handleAnalyze leaves in `result`
earlyReturnResult == result

\* a `drugs` form field that carries the first selected drug only
analyzeDrugsField_First == join(SubSeq(selectedDrugs, 1, 1))

\* the `drugs` form field handleAnalyze appends
analyzeDrugsField == join(selectedDrugs)

\* handleAnalyze up to its await; the submit button is disabled while loading
HandleAnalyze ==
  /\ ~loading
  /\ IF MissingFile
     THEN /\ alertMsg' = AlertMissingFile
          /\ result' = earlyReturnResult
          /\ UNCHANGED <<file, loading, activeDemo, inflight, issued>>
     ELSE IF NoDrugsSelected
     THEN /\ alertMsg' = AlertNoDrugs
          /\ result' = earlyReturnResult
          /\ UNCHANGED <<file, loading, activeDemo, inflight, issued>>
     ELSE /\ issued < MaxSubmissions
          /\ issued' = issued + 1
          /\ loading' = TRUE
          /\ result' = <<>>
          /\ activeDemo' = NoDemo
          /\ inflight' = inflight \cup
               {Request(issued + 1, "analyze", "api", NoDemo, file,
                        analyzeDrugsField, <<>>)}
          /\ UNCHANGED <<file, alertMsg>>
  /\ UNCHANGED <<selectedDrugs, drugInput, edits, gauge, spectrum>>

\* the drugs of a demo added to the selection instead of replacing it
demoSelection_Additive(type) ==
  LET parts == split(demos[type].drug)
  IN selectedDrugs \o [i \in 1..Len(parts) |-> trim(parts[i])]

\* the drugs of a demo taken as split, without the trim
demoSelection_Untrimmed(type) == split(demos[type].drug)

\* the selection a demo sets: demo.drug.split(",").map(d => d.trim())
demoSelection(type) ==
  LET parts == split(demos[type].drug)
  IN [i \in 1..Len(parts) |-> trim(parts[i])]

\* the `drugs` form field loadDemoPatient appends
demoDrugsField(type) == demos[type].drug

\* what loadDemoPatient assigns to `result` before it looks the demo up
demoResultAtCall == <<>>

\* loadDemoPatient up to its first await
LoadDemoPatient(type) ==
  /\ issued < MaxSubmissions
  /\ issued' = issued + 1
  /\ loading' = TRUE
  /\ result' = demoResultAtCall
  /\ activeDemo' = type
  /\ IF type \in DOMAIN demos
     THEN /\ selectedDrugs' = demoSelection(type)
          /\ inflight' = inflight \cup
               {Request(issued + 1, "demo", "sample", type, NoFile, <<>>, result)}
     ELSE UNCHANGED <<selectedDrugs, inflight>>
  /\ UNCHANGED <<file, drugInput, alertMsg, edits, gauge, spectrum>>

\* the sample fetch resolved with response.ok: the file is set and the
\* analysis request is sent
SampleOk(r) ==
  /\ r \in inflight /\ r.stage = "sample"
  /\ file' = demos[r.type].file
  /\ inflight' = (inflight \ {r}) \cup
       {Request(r.id, "demo", "api", r.type, demos[r.type].file,
                demoDrugsField(r.type), <<>>)}
  /\ UNCHANGED <<selectedDrugs, drugInput, result, loading, activeDemo,
                 alertMsg, issued, edits, gauge, spectrum>>

\* what the catch block of loadDemoPatient leaves in `result`
demoCatchResult == result

\* the sample fetch rejected, or resolved with !response.ok: the catch block
SampleFail(r) ==
  /\ r \in inflight /\ r.stage = "sample"
  /\ inflight' = inflight \ {r}
  /\ alertMsg' = AlertDemo
  /\ result' = demoCatchResult
  /\ loading' = FALSE
  /\ UNCHANGED <<file, selectedDrugs, drugInput, activeDemo, issued, edits, gauge, spectrum>>

\* what both handlers store for the decoded body `data`: setResult(data)
storedResult(data) == <<data>>

\* the analysis request resolved and its body parsed as JSON
ApiResolve(r, kind) ==
  /\ r \in inflight /\ r.stage = "api"
  /\ inflight' = inflight \ {r}
  /\ result' = storedResult(Payload(kind, r.id))
  /\ loading' = FALSE
  /\ UNCHANGED <<file, selectedDrugs, drugInput, activeDemo, alertMsg,
                 issued, edits, gauge, spectrum>>

\* the alert of the catch block of the handler that sent the request
catchAlert(origin) == IF origin = "analyze" THEN AlertBackend ELSE AlertDemo

\* a catch block that stores the failure as the result
catchResult_Stored(r) == <<[error |-> TRUE, wellFormed |-> FALSE, req |-> r.id]>>

\* what the catch block of a handler leaves in `result`
catchResult(r) == result

\* a catch block that returns, so that the setLoading(false) after it is skipped
ApiReject_Returns(r) ==
  /\ r \in inflight /\ r.stage = "api"
  /\ inflight' = inflight \ {r}
  /\ alertMsg' = catchAlert(r.origin)
  /\ result' = catchResult(r)
  /\ UNCHANGED <<file, selectedDrugs, drugInput, loading, activeDemo, issued,
                 edits, gauge, spectrum>>

\* the analysis request rejected (or its body was not JSON): the catch block
ApiReject(r) ==
  /\ r \in inflight /\ r.stage = "api"
  /\ inflight' = inflight \ {r}
  /\ alertMsg' = catchAlert(r.origin)
  /\ result' = catchResult(r)
  /\ loading' = FALSE
  /\ UNCHANGED <<file, selectedDrugs, drugInput, activeDemo, issued, edits, gauge, spectrum>>

-----------------------------------------------------------------------------
(* Result Visual Mapper: RiskGauge and MetabolismSpectrum *)

\* a prop that was not passed (undefined)
Undefined == <<"undefined">>

UpperOf ==
  [a |-> "A", b |-> "B", c |-> "C", d |-> "D", e |-> "E", f |-> "F",
   g |-> "G", h |-> "H", i |-> "I", j |-> "J", k |-> "K", l |-> "L",
   m |-> "M", n |-> "N", o |-> "O", p |-> "P", q |-> "Q", r |-> "R",
   s |-> "S", t |-> "T", u |-> "U", v |-> "V", w |-> "W", x |-> "X",
   y |-> "Y", z |-> "Z"]

toUpperCase(s) ==
  [i \in 1..Len(s) |-> IF s[i] \in DOMAIN UpperOf THEN UpperOf[s[i]] ELSE s[i]]

\* the spellings of a word a service may send: as is, lower, upper case
Spellings(words) ==
  words \cup {toLowerCase(w) : w \in words} \cup {toUpperCase(w) : w \in words}

Key_none == <<"n","o","n","e">>
Key_low == <<"l","o","w">>
Key_moderate == <<"m","o","d","e","r","a","t","e">>
Key_high == <<"h","i","g","h">>
Key_critical == <<"c","r","i","t","i","c","a","l">>

\* the object literal angleMap of RiskGauge
angleMap ==
  (Key_none :> -75) @@ (Key_low :> -30) @@ (Key_moderate :> 0)
    @@ (Key_high :> 45) @@ (Key_critical :> 75)

\* angleMap[key]: the number, or nothing (undefined) for a key it lacks
angleMapGet(key) ==
  IF key \in DOMAIN angleMap THEN <<angleMap[key]>> ELSE <<>>

\* a || b on a looked-up number: undefined and 0 are falsy
orElse(looked, b) ==
  IF looked # <<>> /\ looked[1] # 0 THEN looked[1] ELSE b

\* const rotation = angleMap[severity?.toLowerCase()] || -75
rotation(severity) ==
  orElse(angleMapGet(toLowerCase(severity)), -75)

Word_poor == <<"p","o","o","r">>
Word_intermediate == <<"i","n","t","e","r","m","e","d","i","a","t","e">>
Word_normal == <<"n","o","r","m","a","l">>
Word_rapid == <<"r","a","p","i","d">>
Word_ultrarapid == <<"u","l","t","r","a","r","a","p","i","d">>

\* const pLower = phenotype?.toLowerCase() || ""
pLower(phenotype) ==
  IF phenotype = Undefined THEN <<>> ELSE toLowerCase(phenotype)

\* let activeIndex = 2; if (pLower.includes("poor")) ... else if ...
activeIndex(phenotype) ==
  LET p == pLower(phenotype)
  IN IF includes(p, Word_poor) THEN 0
     ELSE IF includes(p, Word_intermediate) THEN 1
     ELSE IF includes(p, Word_normal) THEN 2
     ELSE IF includes(p, Word_rapid) THEN 3
     ELSE IF includes(p, Word_ultrarapid) THEN 4
     ELSE 2

\* the values of result.risk_assessment.severity the gauge is rendered with
SeverityInputs ==
  Spellings({Key_none, Key_low, Key_moderate, Key_high, Key_critical,
             <<"C","r","i","t","i","c","a","l">>})
    \cup {<<"u","n","k","n","o","w","n","-","v","a","l","u","e">>,
          <<"s","e","v","e","r","e">>, <<>>, Undefined}

Phenotype_Poor == <<"P","o","o","r"," ","M","e","t","a","b","o","l","i","z","e","r">>
Phenotype_Intermediate == <<"I","n","t","e","r","m","e","d","i","a","t","e"," ","M","e","t","a","b","o","l","i","z","e","r">>
Phenotype_Normal == <<"N","o","r","m","a","l"," ","M","e","t","a","b","o","l","i","z","e","r">>
Phenotype_Rapid == <<"R","a","p","i","d"," ","M","e","t","a","b","o","l","i","z","e","r">>
Phenotype_Ultrarapid == <<"U","l","t","r","a","r","a","p","i","d"," ","M","e","t","a","b","o","l","i","z","e","r">>

\* the values of result.pharmacogenomic_profile.phenotype the spectrum is
\* rendered with
PhenotypeInputs ==
  Spellings({Phenotype_Poor,
             Phenotype_Intermediate,
             Phenotype_Normal,
             Phenotype_Rapid,
             Phenotype_Ultrarapid})
    \cup {<<"U","n","k","n","o","w","n">>, <<>>, Undefined}

\* RiskGauge rendered with the prop severity
RenderGauge(severity) ==
  /\ gauge' = <<[severity |-> severity, rotation |-> rotation(severity)]>>
  /\ UNCHANGED <<spectrum, selectedDrugs, drugInput, edits, orchestratorVars>>

\* MetabolismSpectrum rendered with the prop phenotype
RenderSpectrum(phenotype) ==
  /\ spectrum' = <<[phenotype |-> phenotype, activeIndex |-> activeIndex(phenotype)]>>
  /\ UNCHANGED <<gauge, selectedDrugs, drugInput, edits, orchestratorVars>>

-----------------------------------------------------------------------------
(* Specifications *)

\* an input event between the steps of the submissions
Edit(A) ==
  /\ edits < MaxEdits
  /\ edits' = edits + 1
  /\ UNCHANGED <<gauge, spectrum>>
  /\ A

\* The orchestrator and the demo loader, with the input events that change
\* what a submission reads: Enter in the tag input (which adds a drug), the
\* removal of a tag and the choice of a file.
Next ==
  \/ Edit(EnterKey /\ UNCHANGED orchestratorVars)
  \/ \E d \in Range(AVAILABLE_DRUGS) :
       Edit(TagRemoveClick(d) /\ UNCHANGED orchestratorVars)
  \/ \E f \in {UploadedFile, NoFile} :
       Edit(ChooseFile(f) /\ UNCHANGED <<selectedDrugs, drugInput>>)
  \/ HandleAnalyze
  \/ \E type \in DemoButtons : LoadDemoPatient(type)
  \/ \E r \in inflight : SampleOk(r)
  \/ \E r \in inflight : SampleFail(r)
  \/ \E r \in inflight, kind \in PayloadKinds : ApiResolve(r, kind)
  \/ \E r \in inflight : ApiReject(r)

Spec == Init /\ [][Next]_vars

\* The tag input alone: typing, Enter, a click on a suggestion and the
\* removal of a tag, in any number and order.
NextSel ==
  \/ \E t \in InputTexts :
       SetInput(t) /\ UNCHANGED <<edits, gauge, spectrum, orchestratorVars>>
  \/ EnterKey /\ UNCHANGED <<edits, gauge, spectrum, orchestratorVars>>
  \/ \E d \in Range(AVAILABLE_DRUGS) :
       SuggestionClick(d) /\ UNCHANGED <<edits, gauge, spectrum, orchestratorVars>>
  \/ \E d \in Range(AVAILABLE_DRUGS) :
       TagRemoveClick(d) /\ UNCHANGED <<edits, gauge, spectrum, orchestratorVars>>

SpecSel == Init /\ [][NextSel]_vars

\* addDrug and removeDrug called with any code of the catalog, selected or not
NextCalls ==
  \/ \E d \in Range(AVAILABLE_DRUGS) :
       addDrug(d) /\ UNCHANGED <<edits, gauge, spectrum, orchestratorVars>>
  \/ \E d \in Range(AVAILABLE_DRUGS) :
       removeDrug(d) /\ UNCHANGED <<edits, gauge, spectrum, orchestratorVars>>

SpecCalls == Init /\ [][NextCalls]_vars

\* texts typed into the tag input: nothing, one that matches several codes,
\* one that matches CODEINE alone, one that matches no code
TypedTexts == {<<>>, <<"c">>, <<"c", "O">>, <<"O", "c">>}

\* Everything that writes the selection: typing, Enter, a click on a
\* suggestion, the removal of a tag, and the demo loader with its sample fetch,
\* after which it sends the drugs of the demo.
NextTags ==
  \/ \E t \in TypedTexts :
       SetInput(t) /\ UNCHANGED <<edits, gauge, spectrum, orchestratorVars>>
  \/ Edit(EnterKey /\ UNCHANGED orchestratorVars)
  \/ \E d \in Range(AVAILABLE_DRUGS) :
       Edit(SuggestionClick(d) /\ UNCHANGED orchestratorVars)
  \/ \E d \in Range(AVAILABLE_DRUGS) :
       Edit(TagRemoveClick(d) /\ UNCHANGED orchestratorVars)
  \/ \E type \in DemoButtons : LoadDemoPatient(type)
  \/ \E r \in inflight : SampleOk(r)
  \/ \E r \in inflight : SampleFail(r)

SpecTags == Init /\ [][NextTags]_vars

\* the two components rendered with any of the values above
NextVisual ==
  \/ \E severity \in SeverityInputs : RenderGauge(severity)
  \/ \E phenotype \in PhenotypeInputs : RenderSpectrum(phenotype)

SpecVisual == Init /\ [][NextVisual]_vars

-----------------------------------------------------------------------------
(* Claims about the orchestrator (specification Spec) *)

\* the submission issued last is still waiting for a response
LatestOutstanding == \E r \in inflight : r.id = issued

\* C1: the displayed result is never the response of a submission other than
\* the most recently issued one: when submission B is issued while A is
\* outstanding and A's response arrives after B's, A's response is discarded.
C1_OnlyLatestResponseShown ==
  result # <<>> => result[1].req = issued

\* C2: the outcome is Pending (loading) exactly when the most recently issued
\* submission has not resolved yet, and then exactly one request is in flight.
C2_PendingIffLatestOutstanding ==
  /\ loading <=> LatestOutstanding
  /\ loading => Cardinality(inflight) = 1

\* C3: a handleAnalyze call with no file, or with a file and an empty
\* selection, sends no request and does not set loading.
C3_PreconditionFailsFast ==
  [][(HandleAnalyze /\ (file = NoFile \/ selectedDrugs = <<>>))
       => /\ inflight' = inflight
          /\ issued' = issued
          /\ ~loading /\ ~loading']_vars

\* C3 witness: the submit button was pressed with a file chosen and every tag
\* removed, and nothing was sent.
C3_Witness ==
  /\ alertMsg = AlertNoDrugs
  /\ file # NoFile
  /\ selectedDrugs = <<>>
  /\ ~loading
  /\ inflight = {}

\* C4 (as claimed): after a handleAnalyze call with no file, or with a file
\* and an empty selection, the outcome is Failure.
C4_PreconditionFailureIsFailure ==
  [][(HandleAnalyze /\ (file = NoFile \/ selectedDrugs = <<>>))
       => RenderBranch' = "Failure"]_vars

\* C4 (amended): a handleAnalyze call with no file raises the alert "Please
\* upload a VCF file", one with a file and an empty selection raises "Please
\* select at least one drug", and either leaves the outcome (result and
\* loading) as it was before the call.
C4_PreconditionFailureAlerts ==
  [][/\ (HandleAnalyze /\ file = NoFile)
          => /\ alertMsg' = AlertMissingFile
             /\ result' = result /\ loading' = loading
     /\ (HandleAnalyze /\ file # NoFile /\ selectedDrugs = <<>>)
          => /\ alertMsg' = AlertNoDrugs
             /\ result' = result /\ loading' = loading]_vars

\* C4 witness: the submit button was pressed with no file while a result of
\* an earlier submission was displayed, and the result is still displayed.
C4_Witness ==
  /\ alertMsg = AlertMissingFile
  /\ file = NoFile
  /\ RenderBranch = "Success"

\* C5 (as claimed): a submission whose analysis request rejects ends with the
\* outcome in Failure.
C5_TransportFailureIsFailure ==
  [][(\E r \in inflight : ApiReject(r)) => RenderBranch' = "Failure"]_vars

\* C5 (amended): when the analysis request of a submission rejects, the
\* handler raises an alert (handleAnalyze: "Failed to connect to backend...",
\* loadDemoPatient: "Demo patient unavailable..."), sets loading to false and
\* writes nothing to result; with the result still null as the submission
\* left it, the outcome ends Idle, not Failure.
C5_TransportFailureAlerts ==
  [][\A r \in inflight :
       ApiReject(r)
         => /\ alertMsg' = (IF r.origin = "analyze" THEN AlertBackend ELSE AlertDemo)
            /\ result' = result
            /\ ~loading'
            /\ (result = <<>> => RenderBranch' = "Idle")]_vars

\* C5 witness: the request of handleAnalyze rejected and the panel is Idle.
C5_Witness ==
  /\ alertMsg = AlertBackend
  /\ issued > 0
  /\ inflight = {}
  /\ RenderBranch = "Idle"

\* C6: when the sample fetch of loadDemoPatient fails, the outcome is the one
\* from before loadDemoPatient was called: a result that was displayed then
\* is the result after the failed load.
C6_FailedLoadKeepsOutcome ==
  [][\A r \in inflight :
       (SampleFail(r) /\ r.priorResult # <<>>) => result' = r.priorResult]_vars

\* C7: the `drugs` field of the request loadDemoPatient sends is join(",") of
\* the selection as it stands when the request is built, as in handleAnalyze.
C7_DemoRequestIsSubmitRequest ==
  [][\A r \in inflight :
       SampleOk(r)
         => \E q \in inflight' :
              /\ q.id = r.id /\ q.stage = "api"
              /\ q.vcf = file'
              /\ q.drugs = join(selectedDrugs)]_vars

\* C8: a response body with no `error` field that lacks the required fields
\* never renders through the success branch.
C8_MalformedNeverSuccess ==
  RenderBranch = "Success" => result[1].wellFormed

-----------------------------------------------------------------------------
(* Claims about the Drug Selection Manager *)

NoDuplicates(s) == \A i, j \in 1..Len(s) : i # j => s[i] # s[j]

\* the place of x in a sequence that holds it once
IndexOf(s, x) == CHOOSE i \in 1..Len(s) : s[i] = x

\* the elements of `sub` stand in the order they have in `full`
SameOrder(sub, full) ==
  \A i, j \in 1..Len(sub) : i < j => IndexOf(full, sub[i]) < IndexOf(full, sub[j])

\* C9 (specification SpecCalls): over all sequences of addDrug and removeDrug
\* calls the selection holds no code twice; addDrug appends the code at the
\* end iff it is absent and otherwise leaves the selection alone; removeDrug
\* deletes the code, keeps the order of the others, and leaves the selection
\* alone when the code is absent.
C9_SelectionOrderedAndUnique ==
  [][/\ NoDuplicates(selectedDrugs) /\ NoDuplicates(selectedDrugs')
     /\ \A d \in Range(AVAILABLE_DRUGS) :
          /\ addDrug(d) =>
               IF d \in Range(selectedDrugs)
               THEN selectedDrugs' = selectedDrugs
               ELSE /\ Len(selectedDrugs') = Len(selectedDrugs) + 1
                    /\ selectedDrugs'[Len(selectedDrugs')] = d
                    /\ SubSeq(selectedDrugs', 1, Len(selectedDrugs)) = selectedDrugs
          /\ removeDrug(d) =>
               /\ Range(selectedDrugs') = Range(selectedDrugs) \ {d}
               /\ SameOrder(selectedDrugs', selectedDrugs)
               /\ (d \notin Range(selectedDrugs) => selectedDrugs' = selectedDrugs)]_vars

\* C9 witness: CLOPIDOGREL was removed and added again after CODEINE: it
\* stands at its new place, once.
C9_Witness ==
  selectedDrugs = <<WARFARIN, CODEINE, CLOPIDOGREL>>

\* the lowercase form of `code` holds the lowercase form of `text` at place i
LowerMatchAt(code, text, i) ==
  /\ i + Len(text) - 1 <= Len(code)
  /\ \A k \in 1..Len(text) :
       toLowerCase(<<code[i + k - 1]>>) = toLowerCase(<<text[k]>>)

LowerContains(code, text) ==
  \E i \in 1..(Len(code) + 1) : LowerMatchAt(code, text, i)

\* C10 (specification SpecSel): suggestedDrugs holds exactly the codes of the
\* catalog whose lowercase form contains the lowercase input and that are not
\* selected, in catalog order; it never holds a selected code.
C10_SuggestionsExact ==
  /\ \A d \in Range(AVAILABLE_DRUGS) :
       d \in Range(suggestedDrugs)
         <=> (LowerContains(d, drugInput) /\ d \notin Range(selectedDrugs))
  /\ Range(suggestedDrugs) \subseteq Range(AVAILABLE_DRUGS)
  /\ NoDuplicates(suggestedDrugs)
  /\ SameOrder(suggestedDrugs, AVAILABLE_DRUGS)
  /\ Range(suggestedDrugs) \cap Range(selectedDrugs) = {}

\* C10 witness: "c" is typed with CLOPIDOGREL selected and CODEINE not: of
\* the three codes holding "c", CODEINE and FLUOROURACIL are suggested.
C10_Witness ==
  /\ drugInput = <<"c">>
  /\ CLOPIDOGREL \in Range(selectedDrugs)
  /\ CODEINE \notin Range(selectedDrugs)
  /\ suggestedDrugs = <<CODEINE, FLUOROURACIL>>

\* C11 (specification SpecSel): with the input empty nothing is suggested,
\* whatever the selection, and Enter leaves the selection as it is.
C11_EmptyInputSuggestsNothing ==
  [][(EnterKey /\ drugInput = <<>>)
       => /\ suggestedDrugs = <<>>
          /\ selectedDrugs' = selectedDrugs]_vars

\* the codes of the catalog that match the input and are not selected
Candidates ==
  {d \in Range(AVAILABLE_DRUGS) :
     LowerContains(d, drugInput) /\ d \notin Range(selectedDrugs)}

\* the candidate that stands first in the catalog
FirstCandidate ==
  CHOOSE d \in Candidates :
    \A e \in Candidates : IndexOf(AVAILABLE_DRUGS, d) <= IndexOf(AVAILABLE_DRUGS, e)

\* C12 (specification SpecSel): Enter with at least one suggestion appends
\* the first suggestion in catalog order to the selection and clears the
\* input; Enter with no suggestion changes neither.
C12_EnterAddsFirstSuggestion ==
  [][EnterKey =>
       IF Candidates # {}
       THEN /\ selectedDrugs' = Append(selectedDrugs, FirstCandidate)
            /\ drugInput' = <<>>
       ELSE /\ selectedDrugs' = selectedDrugs
            /\ drugInput' = drugInput]_vars

\* C12 witness: with CLOPIDOGREL and WARFARIN selected, "c" was typed and
\* Enter took CODEINE, the first of CODEINE and FLUOROURACIL, and cleared
\* the input.
C12_Witness ==
  /\ selectedDrugs = <<CLOPIDOGREL, WARFARIN, CODEINE>>
  /\ drugInput = <<>>

\* C13 (specification SpecVisual): whatever the spelling of its case, the gauge
\* turns the needle to -75 for none, -30 for low, 0 for moderate, 45 for high,
\* 75 for critical and -75 for everything else, so the angle grows strictly
\* with the rank of the severity.
SeverityRank ==
  (Key_none :> 1) @@ (Key_low :> 2) @@ (Key_moderate :> 3)
    @@ (Key_high :> 4) @@ (Key_critical :> 5)

StatedAngle ==
  (1 :> -75) @@ (2 :> -30) @@ (3 :> 0) @@ (4 :> 45) @@ (5 :> 75)

C13_AngleFollowsSeverityRank ==
  gauge # <<>> =>
    LET word == toLowerCase(gauge[1].severity)
    IN IF word \in DOMAIN SeverityRank
       THEN /\ gauge[1].rotation = StatedAngle[SeverityRank[word]]
            /\ \A lower \in DOMAIN SeverityRank :
                 SeverityRank[lower] < SeverityRank[word]
                   => rotation(lower) < gauge[1].rotation
       ELSE gauge[1].rotation = -75

\* C14 (specification SpecVisual): the spectrum lights node 0 for a phenotype
\* containing "poor", 1 for "intermediate", 2 for "normal", 3 for "Rapid
\* Metabolizer" and 4 for "Ultrarapid Metabolizer", in any case spelling, and
\* node 2 for an unrecognized or missing phenotype; the node is within 0..4.
C14_IndexFollowsPhenotype ==
  spectrum # <<>> =>
    LET given == spectrum[1].phenotype
        text == IF given = Undefined THEN <<>> ELSE toLowerCase(given)
        index == spectrum[1].activeIndex
    IN /\ index \in 0..4
       /\ LowerContains(text, Word_poor) => index = 0
       /\ LowerContains(text, Word_intermediate) => index = 1
       /\ LowerContains(text, Word_normal) => index = 2
       /\ text = toLowerCase(Phenotype_Rapid) => index = 3
       /\ text = toLowerCase(Phenotype_Ultrarapid) => index = 4
       /\ (\A w \in {Word_poor, Word_intermediate, Word_normal, Word_rapid,
                     Word_ultrarapid} : ~LowerContains(text, w))
            => index = 2

\* C15 (specification Spec): loading a demo sets the selection to exactly the
\* drug list of that demo, whatever was selected before, without duplicates;
\* the demo "poor" gives [CODEINE] and fetches poor_metabolizer.vcf, which
\* becomes the pending file when the fetch succeeds.
PresetDrugs ==
  [normal |-> <<CLOPIDOGREL>>, intermediate |-> <<WARFARIN, CODEINE>>,
   poor |-> <<CODEINE>>, rapid |-> <<CODEINE>>]

C15_PresetReplacesSelection ==
  [][/\ \A type \in DemoButtons :
          LoadDemoPatient(type)
            => /\ selectedDrugs' = PresetDrugs[type]
               /\ NoDuplicates(selectedDrugs')
               /\ \E r \in inflight' \ inflight :
                    r.stage = "sample" /\ r.type = type
     /\ \A r \in inflight :
          (SampleOk(r) /\ r.type = "poor")
            => /\ file' = "poor_metabolizer.vcf"
               /\ \E q \in inflight' : q.id = r.id /\ q.stage = "api"
                                         /\ q.vcf = "poor_metabolizer.vcf"]_vars

\* the demo "poor" was loaded over the initial selection [CLOPIDOGREL,
\* WARFARIN] and its sample file fetched
C15_Witness ==
  /\ activeDemo = "poor"
  /\ selectedDrugs = <<CODEINE>>
  /\ file = "poor_metabolizer.vcf"
  /\ \E r \in inflight : r.type = "poor" /\ r.stage = "api"

\* C16 (specification Spec): handleAnalyze, on an early return, when it sends
\* its request and when that request resolves or rejects, leaves the selection
\* and the pending file as they are; the request it sends carries the
\* selection and the file of that moment, and no later step, an edit of the
\* selection included, changes a request that is in flight.
AnalyzeStep ==
  \/ HandleAnalyze
  \/ \E r \in inflight :
       /\ r.origin = "analyze"
       /\ \/ \E kind \in PayloadKinds : ApiResolve(r, kind)
          \/ ApiReject(r)

====
